---- MODULE Spec2Model ----
(***************************************************************************)
(* A model of gosql2pc: two-phase commit over PostgreSQL prepared          *)
(* transactions.  Participant (prepare / commit / rollback) and the        *)
(* coordinator Do are translated from the library; the backends are        *)
(* modelled by the statements the library and the example work functions   *)
(* send to them (BEGIN, INSERT, PREPARE TRANSACTION, COMMIT PREPARED,      *)
(* ROLLBACK PREPARED, ROLLBACK).  Every backend statement is atomic: it    *)
(* either takes effect and reports success, or reports an error and has    *)
(* no effect.                                                              *)
(***************************************************************************)
EXTENDS Naturals, Sequences, FiniteSets, TLC

\* Bounds of the model.
MaxN == 3       \* longest participant list passed to Do
MaxRuns == 3    \* concurrent invocations of Do (goroutines of concurrency1)
MaxCalls == 2   \* invocations of Do with the same Params (SpecReuse)

\* insertUserAndOrder builds a list of two participants (user, order).
PairLen == 2

VARIABLES
    parts,       \* parts[r]: params.Participants of invocation r (the Participant structs)
    pc,          \* pc[r]: position of invocation r inside Do
    idx,         \* idx[r]: the loop variable i of the loop Do is in (1-based)
    ret,         \* ret[r]: the value of Do's return statement
    tx,          \* tx[r]: the local transaction of the prepare in progress
    cancelled,   \* cancelled[r]: ctx.Done() of the context passed to Do is closed
    cancelAt,    \* cancelAt[r]: where Do was when its context was cancelled, and
                 \* whether its work statement was waiting for a lock then
    inject,      \* whether the backends of this behaviour may fail statements
    dbPrepared,  \* dbPrepared[d]: prepared transactions held by backend d
    dbRows,      \* dbRows[d]: committed writes of backend d
    nextGid,     \* number of identifiers getPreparedGid has handed out
    log,         \* log[r]: the messages passed to params.LogFn
    trace,       \* trace[r]: the calls Do and prepare have made, in order
    calls        \* calls[r]: how many times Do was invoked with parts[r]

vars == <<parts, pc, idx, ret, tx, cancelled, cancelAt, inject,
          dbPrepared, dbRows, nextGid, log, trace, calls>>

Runs == 1..MaxRuns
DBs == 1..MaxN

----------------------------------------------------------------------------
\* Errors.  An error is its Unwrap chain (what errors.Is matches) and its text.

Nil == [chain |-> <<>>, text |-> <<>>]

\* errors.New / an error returned by the driver: matches only itself.
NewError(kind, i) == [chain |-> << <<kind, i>> >>, text |-> << <<kind, i>> >>]

ErrCommitFailed == NewError("commit failed", 0)

\* errors.Is(e, target)
ErrorsIs(e, target) ==
    \E j \in DOMAIN e.chain : \E k \in DOMAIN target.chain : e.chain[j] = target.chain[k]

\* fmt.Errorf("%v: %s", ErrCommitFailed, err.Error()): the sentinel is lost.
WrapCommitFailedNoUnwrap(e) ==
    [chain |-> << <<"errorString", 0>> >>, text |-> ErrCommitFailed.text \o e.text]

\* fmt.Errorf("%w: %s", ErrCommitFailed, err.Error())
WrapCommitFailed(e) ==
    [chain |-> ErrCommitFailed.chain, text |-> ErrCommitFailed.text \o e.text]

----------------------------------------------------------------------------
\* Participant.

EmptyTxid == <<>>
defaultPrefix == "gosql2pc-"

\* getPreparedGid: the prefix and a fresh uuid (the k-th one handed out).
getPreparedGid(k) == <<defaultPrefix, k>>

\* NewParticipant(db, do): do is one statement on key `key` of backend db.
NewParticipant(db, stmt, key) ==
    [db |-> db, stmt |-> stmt, key |-> key,
     txid |-> EmptyTxid, prepared |-> FALSE, committed |-> FALSE, rollbacked |-> FALSE]

\* Params{Participants: p1..pn}: participant i works on backend i.
NewParams(n, stmt) == [i \in 1..n |-> NewParticipant(i, stmt, i)]

\* rollback's guard without the committed flag.
rollbackSkipsNoCommitted(p) == p.txid = EmptyTxid \/ p.rollbacked

\* rollback's guard without the rollbacked flag.
rollbackSkipsNoRollbacked(p) == p.txid = EmptyTxid \/ p.committed

\* rollback returns nil without a backend call.
rollbackSkips(p) == p.txid = EmptyTxid \/ p.rollbacked \/ p.committed

\* prepare, lines 41-46: the identifier is stored before PREPARE TRANSACTION
\* is sent; prepared is set only when it succeeded.
prepareResult(p, gid, ok) ==
    IF ok THEN [p EXCEPT !.txid = gid, !.prepared = TRUE] ELSE [p EXCEPT !.txid = gid]

\* commit with the flag set whatever COMMIT PREPARED answered.
commitResultEager(p, ok) == [p EXCEPT !.committed = TRUE]

\* commit: committed is set only when COMMIT PREPARED succeeded.
commitResult(p, ok) == IF ok THEN [p EXCEPT !.committed = TRUE] ELSE p

\* rollback with the flag set whatever ROLLBACK PREPARED answered.
rollbackResultEager(p, ok) == [p EXCEPT !.rollbacked = TRUE]

\* rollback: rollbacked is set only when ROLLBACK PREPARED succeeded.
rollbackResult(p, ok) == IF ok THEN [p EXCEPT !.rollbacked = TRUE] ELSE p

\* The lifecycle state the flags encode.
StateOf(p) ==
    IF p.committed THEN "Committed"
    ELSE IF p.rollbacked THEN "RolledBack"
    ELSE IF p.prepared THEN "Prepared"
    ELSE "NotPrepared"

----------------------------------------------------------------------------
\* Backends.

\* A prepared transaction gid is held by backend d.
PreparedOn(d, gid) == \E t \in dbPrepared[d] : t.gid = gid

\* Backend d without the prepared transaction gid.
DropPrepared(d, gid) == {t \in dbPrepared[d] : t.gid # gid}

\* A write of key k on backend d by a transaction that has neither committed
\* nor rolled back: an open local transaction of another invocation, or a
\* prepared transaction.  A statement on the same key waits for it.
InFlight(r, d, k) ==
    \/ \E q \in Runs \ {r} :
          /\ tx[q] = "written"
          /\ parts[q][idx[q]].db = d
          /\ parts[q][idx[q]].key = k
    \/ \E t \in dbPrepared[d] : t.key = k

\* The primary key k is already committed on backend d.
Duplicate(d, k) == \E w \in dbRows[d] : w.key = k

\* Outcomes of a statement the backend is able to execute.
StmtOutcomes == IF inject THEN {TRUE, FALSE} ELSE {TRUE}

\* o.db.BeginTx(ctx, nil) and tx.ExecContext(ctx, ...): fail once ctx is done.
CtxStmtOutcomes(r) == IF cancelled[r] THEN {FALSE} ELSE StmtOutcomes

\* o.do(ctx, tx): the work function runs one statement through tx with ctx.
WorkOutcomes(r, p) ==
    IF cancelled[r] THEN {"context canceled"}
    ELSE (IF inject THEN {"do"} ELSE {})
         \cup (IF InFlight(r, p.db, p.key) THEN {}
               ELSE IF p.stmt = "insert" /\ Duplicate(p.db, p.key) THEN {"duplicate key"}
               ELSE {"ok"})

\* o.db.Exec of COMMIT PREPARED, or of ROLLBACK PREPARED, sent with the context.
PreparedExecOutcomesCtx(r, p) ==
    IF cancelled[r] \/ ~PreparedOn(p.db, p.txid) THEN {FALSE} ELSE StmtOutcomes

\* o.db.Exec of COMMIT PREPARED '<txid>' or ROLLBACK PREPARED '<txid>': no
\* context; the backend refuses an identifier it holds no transaction for.
PreparedExecOutcomes(r, p) ==
    IF PreparedOn(p.db, p.txid) THEN StmtOutcomes ELSE {FALSE}

----------------------------------------------------------------------------
\* Do: where control goes after each call.

Goto(pcv, i, e) == [pc |-> pcv, idx |-> i, ret |-> e]

\* The prepare loop with the error of prepare dropped instead of returned.
AfterPrepareIgnoreErr(e, i, n) ==
    IF i < n THEN Goto("prepare", i + 1, Nil) ELSE Goto("commit", 1, Nil)

\* The prepare loop returning its error with no deferred rollback loop.
AfterPrepareNoDefer(e, i, n) ==
    IF e # Nil THEN Goto("done", i, e)
    ELSE IF i < n THEN Goto("prepare", i + 1, Nil)
    ELSE Goto("commit", 1, Nil)

\* The prepare loop calling prepare again on the participant that failed.
AfterPrepareRetry(e, i, n) ==
    IF e # Nil THEN Goto("prepare", i, Nil)
    ELSE IF i < n THEN Goto("prepare", i + 1, Nil)
    ELSE Goto("commit", 1, Nil)

\* The prepare loop: `if err != nil { return err }`, else the next participant,
\* else the commit loop.  The return starts the deferred rollback loop.
AfterPrepare(e, i, n) ==
    IF e # Nil THEN Goto("rollback", 1, e)
    ELSE IF i < n THEN Goto("prepare", i + 1, Nil)
    ELSE Goto("commit", 1, Nil)

\* The commit loop going on to the next participant after a failed commit.
AfterCommitContinue(e, i, n) ==
    IF i < n THEN Goto("commit", i + 1, Nil) ELSE Goto("rollback", 1, Nil)

\* The commit loop with `return nil` inside the loop body.
AfterCommitStopEarly(e, i, n) ==
    IF e # Nil THEN Goto("rollback", 1, WrapCommitFailed(e)) ELSE Goto("rollback", 1, Nil)

\* The commit loop: a failure returns the wrapped error, else the next
\* participant, else `return nil`.
AfterCommit(e, i, n) ==
    IF e # Nil THEN Goto("rollback", 1, WrapCommitFailed(e))
    ELSE IF i < n THEN Goto("commit", i + 1, Nil)
    ELSE Goto("rollback", 1, Nil)

\* The deferred loop assigning a rollback error to Do's (named) result.
AfterRollbackReturnsErr(e, i, n, r0) ==
    LET v == IF e # Nil THEN e ELSE r0
    IN IF i < n THEN Goto("rollback", i + 1, v) ELSE Goto("done", i, v)

\* The deferred loop leaving at the first rollback error.
AfterRollbackStopOnErr(e, i, n, r0) ==
    IF i < n /\ e = Nil THEN Goto("rollback", i + 1, r0) ELSE Goto("done", i, r0)

\* The deferred loop: a rollback error is logged only; after the last
\* participant Do returns the value of its return statement.
AfterRollback(e, i, n, r0) ==
    IF i < n THEN Goto("rollback", i + 1, r0) ELSE Goto("done", i, r0)

Ev(op, i, res) == [op |-> op, i |-> i, res |-> res]

Step(r, nxt, ev) ==
    /\ pc' = [pc EXCEPT ![r] = nxt.pc]
    /\ idx' = [idx EXCEPT ![r] = nxt.idx]
    /\ ret' = [ret EXCEPT ![r] = nxt.ret]
    /\ trace' = [trace EXCEPT ![r] = Append(@, ev)]

\* Do(ctx, params) is called: getLog, the defer, and into the prepare loop.
DoCall(r) ==
    /\ pc[r] = "ready"
    /\ Step(r, Goto("prepare", 1, Nil), Ev("Do", 0, "call"))
    /\ calls' = [calls EXCEPT ![r] = @ + 1]
    /\ UNCHANGED <<parts, tx, cancelled, cancelAt, inject, dbPrepared, dbRows,
                   nextGid, log>>

\* prepare: tx, err := o.db.BeginTx(ctx, nil)
BeginTx(r) ==
    /\ pc[r] = "prepare"
    /\ LET i == idx[r]
           n == Len(parts[r])
       IN \E ok \in CtxStmtOutcomes(r) :
            IF ok
            THEN /\ tx' = [tx EXCEPT ![r] = "begun"]
                 /\ Step(r, Goto("do", i, Nil), Ev("BeginTx", i, "ok"))
            ELSE /\ tx' = tx
                 /\ Step(r, AfterPrepare(NewError(IF cancelled[r] THEN "context canceled"
                                                  ELSE "BeginTx", i), i, n),
                         Ev("BeginTx", i, "fail"))
    /\ UNCHANGED <<parts, cancelled, cancelAt, inject, dbPrepared, dbRows,
                   nextGid, log, calls>>

\* prepare: o.do(ctx, tx); on an error the deferred tx.Rollback() ends the
\* local transaction and prepare returns the error unchanged.
Work(r) ==
    /\ pc[r] = "do"
    /\ LET i == idx[r]
           n == Len(parts[r])
       IN \E out \in WorkOutcomes(r, parts[r][i]) :
            IF out = "ok"
            THEN /\ tx' = [tx EXCEPT ![r] = "written"]
                 /\ Step(r, Goto("exec", i, Nil), Ev("do", i, "ok"))
            ELSE /\ tx' = [tx EXCEPT ![r] = "none"]
                 /\ Step(r, AfterPrepare(NewError(out, i), i, n), Ev("do", i, "fail"))
    /\ UNCHANGED <<parts, cancelled, cancelAt, inject, dbPrepared, dbRows,
                   nextGid, log, calls>>

\* prepare: o.txid = getPreparedGid(); PREPARE TRANSACTION '<txid>'.  On
\* success the transaction leaves the session and prepared is set; on an error
\* the deferred tx.Rollback() discards the local transaction.
PrepareTransaction(r) ==
    /\ pc[r] = "exec"
    /\ LET i == idx[r]
           n == Len(parts[r])
           p == parts[r][i]
           gid == getPreparedGid(nextGid + 1)
       IN \E ok \in CtxStmtOutcomes(r) :
            IF ok
            THEN /\ parts' = [parts EXCEPT ![r][i] = prepareResult(p, gid, TRUE)]
                 /\ dbPrepared' = [dbPrepared EXCEPT ![p.db] =
                                      @ \cup {[gid |-> gid, key |-> p.key]}]
                 /\ Step(r, AfterPrepare(Nil, i, n), Ev("PrepareTransaction", i, "ok"))
            ELSE /\ parts' = [parts EXCEPT ![r][i] = prepareResult(p, gid, FALSE)]
                 /\ dbPrepared' = dbPrepared
                 /\ Step(r, AfterPrepare(NewError(IF cancelled[r] THEN "context canceled"
                                                  ELSE "PrepareTransaction", i), i, n),
                         Ev("PrepareTransaction", i, "fail"))
    /\ nextGid' = nextGid + 1
    /\ tx' = [tx EXCEPT ![r] = "none"]
    /\ UNCHANGED <<cancelled, cancelAt, inject, dbRows, log, calls>>

\* commit: COMMIT PREPARED '<txid>'; committed is set on success; Do logs a
\* failure and returns it wrapped.
Commit(r) ==
    /\ pc[r] = "commit"
    /\ LET i == idx[r]
           n == Len(parts[r])
           p == parts[r][i]
           e == NewError("CommitPrepared", i)
       IN \E ok \in PreparedExecOutcomes(r, p) :
            IF ok
            THEN /\ parts' = [parts EXCEPT ![r][i] = commitResult(p, TRUE)]
                 /\ dbPrepared' = [dbPrepared EXCEPT ![p.db] = DropPrepared(p.db, p.txid)]
                 /\ dbRows' = [dbRows EXCEPT ![p.db] =
                                  @ \cup {[key |-> p.key, gid |-> p.txid]}]
                 /\ log' = log
                 /\ Step(r, AfterCommit(Nil, i, n), Ev("commit", i, "ok"))
            ELSE /\ parts' = [parts EXCEPT ![r][i] = commitResult(p, FALSE)]
                 /\ UNCHANGED <<dbPrepared, dbRows>>
                 /\ log' = [log EXCEPT ![r] = Append(@, <<"commit failed: %s", e>>)]
                 /\ Step(r, AfterCommit(e, i, n), Ev("commit", i, "fail"))
    /\ UNCHANGED <<tx, cancelled, cancelAt, inject, nextGid, calls>>

\* The deferred loop body: rollback() of participant i, its error logged.
Rollback(r) ==
    /\ pc[r] = "rollback"
    /\ LET i == idx[r]
           n == Len(parts[r])
           p == parts[r][i]
           e == NewError("RollbackPrepared", i)
       IN IF rollbackSkips(p)
          THEN /\ UNCHANGED <<parts, dbPrepared, log>>
               /\ Step(r, AfterRollback(Nil, i, n, ret[r]), Ev("rollback", i, "noop"))
          ELSE \E ok \in PreparedExecOutcomes(r, p) :
                 IF ok
                 THEN /\ parts' = [parts EXCEPT ![r][i] = rollbackResult(p, TRUE)]
                      /\ dbPrepared' = [dbPrepared EXCEPT ![p.db] =
                                           DropPrepared(p.db, p.txid)]
                      /\ log' = log
                      /\ Step(r, AfterRollback(Nil, i, n, ret[r]), Ev("rollback", i, "ok"))
                 ELSE /\ parts' = [parts EXCEPT ![r][i] = rollbackResult(p, FALSE)]
                      /\ dbPrepared' = dbPrepared
                      /\ log' = [log EXCEPT ![r] = Append(@, <<"rollback failed: %s", e>>)]
                      /\ Step(r, AfterRollback(e, i, n, ret[r]), Ev("rollback", i, "fail"))
    /\ UNCHANGED <<tx, cancelled, cancelAt, inject, dbRows, nextGid, calls>>

\* The caller's context is cancelled (cancel() or the deadline) while Do runs.
Cancel(r) ==
    /\ pc[r] \notin {"idle", "ready", "done"}
    /\ ~cancelled[r]
    /\ cancelled' = [cancelled EXCEPT ![r] = TRUE]
    /\ cancelAt' = [cancelAt EXCEPT ![r] =
                       [pc |-> pc[r], idx |-> idx[r],
                        waiting |-> /\ pc[r] = "do"
                                    /\ InFlight(r, parts[r][idx[r]].db,
                                                parts[r][idx[r]].key)]]
    /\ UNCHANGED <<parts, pc, idx, ret, tx, inject, dbPrepared, dbRows, nextGid,
                   log, trace, calls>>

----------------------------------------------------------------------------
\* One invocation of Do on a list of 1..MaxN participants, with backends that
\* may or may not fail statements and a context that may be cancelled.

InitCommon(active, n, stmt) ==
    /\ parts = [r \in Runs |-> NewParams(n, stmt)]
    /\ pc = [r \in Runs |-> IF r \in active THEN "ready" ELSE "idle"]
    /\ idx = [r \in Runs |-> 1]
    /\ ret = [r \in Runs |-> Nil]
    /\ tx = [r \in Runs |-> "none"]
    /\ cancelled = [r \in Runs |-> FALSE]
    /\ cancelAt = [r \in Runs |-> [pc |-> "never", idx |-> 0, waiting |-> FALSE]]
    /\ dbPrepared = [d \in DBs |-> {}]
    /\ dbRows = [d \in DBs |-> {}]
    /\ nextGid = 0
    /\ log = [r \in Runs |-> <<>>]
    /\ trace = [r \in Runs |-> <<>>]
    /\ calls = [r \in Runs |-> 0]

Init ==
    /\ inject \in BOOLEAN
    /\ \E n \in 1..MaxN : InitCommon({1}, n, "insert")

Next ==
    \E r \in Runs :
        \/ DoCall(r)
        \/ BeginTx(r)
        \/ Work(r)
        \/ PrepareTransaction(r)
        \/ Commit(r)
        \/ Rollback(r)
        \/ Cancel(r)

Spec == Init /\ [][Next]_vars

----------------------------------------------------------------------------
\* concurrency1: MaxRuns goroutines call insertUserAndOrder with the same user
\* and order ids, each on its own two participants, with context.Background()
\* and backends that fail no statement.

InitConc ==
    /\ inject = FALSE
    /\ InitCommon(Runs, PairLen, "insert")

NextConc ==
    \E r \in Runs :
        \/ DoCall(r)
        \/ BeginTx(r)
        \/ Work(r)
        \/ PrepareTransaction(r)
        \/ Commit(r)
        \/ Rollback(r)

SpecConc == InitConc /\ [][NextConc]_vars

----------------------------------------------------------------------------
\* The same Params passed to Do again: the slice shares its Participant
\* structs with the caller, so the flags and txid of a run are still there in
\* the next one.  Two participants, backends that may fail statements.

\* The caller invokes Do once more with the Params of the run that returned.
DoAgain(r) ==
    /\ pc[r] = "done"
    /\ calls[r] < MaxCalls
    /\ pc' = [pc EXCEPT ![r] = "ready"]
    /\ UNCHANGED <<parts, idx, ret, tx, cancelled, cancelAt, inject, dbPrepared,
                   dbRows, nextGid, log, trace, calls>>

InitReuse ==
    /\ inject = TRUE
    /\ InitCommon({1}, PairLen, "update")

NextReuse ==
    \E r \in Runs :
        \/ DoCall(r)
        \/ BeginTx(r)
        \/ Work(r)
        \/ PrepareTransaction(r)
        \/ Commit(r)
        \/ Rollback(r)
        \/ DoAgain(r)

SpecReuse == InitReuse /\ [][NextReuse]_vars

----------------------------------------------------------------------------
\* concurrency2: two goroutines update the same user and order rows, each on
\* its own two participants; the first with context.Background(), the second
\* with a context that has a deadline.  The backends fail no statement.

First == 1
Second == 2

\* The deadline of the second goroutine's context.WithTimeout expires.
DeadlineExpires == Cancel(Second)

InitLock ==
    /\ inject = FALSE
    /\ InitCommon({First, Second}, PairLen, "update")

NextLock ==
    \/ \E r \in Runs :
          \/ DoCall(r)
          \/ BeginTx(r)
          \/ Work(r)
          \/ PrepareTransaction(r)
          \/ Commit(r)
          \/ Rollback(r)
    \/ DeadlineExpires

SpecLock == InitLock /\ [][NextLock]_vars

----------------------------------------------------------------------------
\* What the trace of an invocation says.

N(r) == Len(parts[r])
Done(r) == pc[r] = "done"

\* Some call op on participant i ended with res.
Has(r, op, i, res) == \E j \in DOMAIN trace[r] : trace[r][j] = Ev(op, i, res)

Called(r, op, i) == \E j \in DOMAIN trace[r] : trace[r][j].op = op /\ trace[r][j].i = i

PrepareOps == {"BeginTx", "do", "PrepareTransaction"}

\* prepare of participant i was invoked / returned nil / returned an error.
PrepareCalled(r, i) == Called(r, "BeginTx", i)
PrepareOk(r, i) == Has(r, "PrepareTransaction", i, "ok")
PrepareFailed(r, i) == \E op \in PrepareOps : Has(r, op, i, "fail")

\* The errors prepare of participant i can return.
PrepareErrors(i) ==
    {NewError(k, i) : k \in PrepareOps \cup {"context canceled", "duplicate key"}}

\* A backend ROLLBACK PREPARED was sent for participant i.
RollbackSent(r, i) == Has(r, "rollback", i, "ok") \/ Has(r, "rollback", i, "fail")

\* The transaction of participant i is committed on / held prepared by its backend.
CommittedOnBackend(r, i) ==
    \E w \in dbRows[parts[r][i].db] : w.gid = parts[r][i].txid
PreparedOnBackend(r, i) == PreparedOn(parts[r][i].db, parts[r][i].txid)

\* The positions of the trace holding calls of op, and the participants of
\* the calls of op in the order they were made.
Positions(r, op) == {j \in DOMAIN trace[r] : trace[r][j].op = op}
RECURSIVE OrderOf(_, _, _)
OrderOf(r, op, j) ==
    IF j = 0 THEN <<>>
    ELSE IF trace[r][j].op = op THEN Append(OrderOf(r, op, j - 1), trace[r][j].i)
    ELSE OrderOf(r, op, j - 1)

----------------------------------------------------------------------------
\* C1 as stated: when Do has returned, every participant's transaction is
\* committed on its backend or none is, whatever failed.
C1_Atomicity ==
    \A r \in Runs : Done(r) =>
        \/ \A i \in 1..N(r) : CommittedOnBackend(r, i)
        \/ \A i \in 1..N(r) : ~CommittedOnBackend(r, i)

\* C1 amended: when Do returns nil every transaction is committed; when it
\* returns a prepare error none is; only when it returns ErrCommitFailed for
\* participant k are exactly the transactions of 1..k-1 committed.
C1_AtomicityUnlessCommitFailed ==
    \A r \in Runs : Done(r) =>
        /\ ret[r] = Nil => \A i \in 1..N(r) : CommittedOnBackend(r, i)
        /\ (ret[r] # Nil /\ ~ErrorsIs(ret[r], ErrCommitFailed)) =>
              \A i \in 1..N(r) : ~CommittedOnBackend(r, i)
        /\ ErrorsIs(ret[r], ErrCommitFailed) =>
              \E k \in 1..N(r) :
                  /\ Has(r, "commit", k, "fail")
                  /\ \A i \in 1..N(r) : CommittedOnBackend(r, i) <=> i < k

C1_Witness ==
    /\ Done(1)
    /\ ErrorsIs(ret[1], ErrCommitFailed)
    /\ CommittedOnBackend(1, 1)
    /\ ~CommittedOnBackend(1, 2)

\* C2: Do returns nil exactly when every prepare and every commit succeeded;
\* after all prepares commit is attempted in turn (on participant 1, and on
\* i+1 exactly when the commit of i succeeded); a nil return leaves every
\* participant Committed.
C2_NilIffAllSucceeded ==
    \A r \in Runs : Done(r) =>
        LET allPrepared == \A i \in 1..N(r) : PrepareOk(r, i)
            allCommitted == \A i \in 1..N(r) : Has(r, "commit", i, "ok")
        IN /\ ret[r] = Nil <=> (allPrepared /\ allCommitted)
           /\ allPrepared =>
                 /\ Called(r, "commit", 1)
                 /\ \A i \in 1..(N(r) - 1) :
                       Called(r, "commit", i + 1) <=> Has(r, "commit", i, "ok")
           /\ ret[r] = Nil =>
                 \A i \in 1..N(r) :
                     StateOf(parts[r][i]) = "Committed" /\ CommittedOnBackend(r, i)

C2_Witness ==
    /\ Done(1)
    /\ N(1) >= 2
    /\ ret[1] = Nil
    /\ inject

\* C3: once prepare of participant k has failed, Do's result is k's prepare
\* error, prepare of k+1..N is never invoked, nothing is ever committed, and
\* by the time Do returns ROLLBACK PREPARED was sent for each of 1..k-1.
C3_PrepareFailure ==
    \A r \in Runs : \A k \in 1..N(r) : PrepareFailed(r, k) =>
        /\ ret[r] \in PrepareErrors(k)
        /\ \A i \in 1..N(r) :
              /\ i > k => ~PrepareCalled(r, i)
              /\ ~Called(r, "commit", i)
              /\ ~parts[r][i].committed
              /\ ~CommittedOnBackend(r, i)
        /\ Done(r) => \A i \in 1..(k - 1) : RollbackSent(r, i)

C3_Witness ==
    /\ Done(1)
    /\ N(1) = 3
    /\ PrepareFailed(1, 2)
    /\ Has(1, "rollback", 1, "ok")

\* C4: once the commit of participant k has failed, Do's result matches
\* ErrCommitFailed and its text carries k's error; 1..k-1 stay Committed and
\* the cleanup pass makes no backend call for them; commit is never attempted
\* on k+1..N.
C4_CommitFailure ==
    \A r \in Runs : \A k \in 1..N(r) : Has(r, "commit", k, "fail") =>
        /\ ErrorsIs(ret[r], ErrCommitFailed)
        /\ ret[r].text = ErrCommitFailed.text \o NewError("CommitPrepared", k).text
        /\ \A i \in 1..N(r) :
              /\ i < k => /\ StateOf(parts[r][i]) = "Committed"
                          /\ CommittedOnBackend(r, i)
                          /\ ~RollbackSent(r, i)
              /\ i > k => ~Called(r, "commit", i)

C4_Witness ==
    /\ Done(1)
    /\ N(1) = 3
    /\ Has(1, "commit", 2, "fail")
    /\ Has(1, "rollback", 1, "noop")

\* The deferred loop has dealt with participant i.
CleanupPassed(r, i) == Done(r) \/ (pc[r] = "rollback" /\ idx[r] > i)

\* C5 as stated: once its commit has failed, participant k is in state
\* Prepared, up to and after the return of Do.
C5_StaysPrepared ==
    \A r \in Runs : \A k \in 1..N(r) :
        Has(r, "commit", k, "fail") => StateOf(parts[r][k]) = "Prepared"

\* C5 amended: once its commit has failed, participant k is never Committed
\* and stays Prepared until the cleanup pass reaches it; the cleanup pass
\* sends ROLLBACK PREPARED for it, after which it is RolledBack (and gone
\* from the backend) if that call succeeded and still Prepared if it failed.
C5_PreparedUntilCleanup ==
    \A r \in Runs : \A k \in 1..N(r) : Has(r, "commit", k, "fail") =>
        /\ StateOf(parts[r][k]) # "Committed"
        /\ ~CommittedOnBackend(r, k)
        /\ ~CleanupPassed(r, k) =>
              StateOf(parts[r][k]) = "Prepared" /\ PreparedOnBackend(r, k)
        /\ CleanupPassed(r, k) =>
              \/ /\ Has(r, "rollback", k, "ok")
                 /\ StateOf(parts[r][k]) = "RolledBack"
                 /\ ~PreparedOnBackend(r, k)
              \/ /\ Has(r, "rollback", k, "fail")
                 /\ StateOf(parts[r][k]) = "Prepared"
                 /\ PreparedOnBackend(r, k)

C5_Witness ==
    /\ Done(1)
    /\ Has(1, "commit", 2, "fail")
    /\ StateOf(parts[1][2]) = "RolledBack"

\* C6: rollback() is not called before Do's outcome is decided (no prepare or
\* commit call follows a rollback call), and when Do returns it has been
\* called exactly once on every participant, in list order.
C6_RollbackEveryExit ==
    \A r \in Runs :
        /\ pc[r] \notin {"rollback", "done"} => Positions(r, "rollback") = {}
        /\ \A j \in Positions(r, "rollback") : \A m \in DOMAIN trace[r] :
              m > j => trace[r][m].op = "rollback"
        /\ Done(r) => OrderOf(r, "rollback", Len(trace[r])) = [i \in 1..N(r) |-> i]

C6_Witness ==
    /\ Done(1)
    /\ N(1) = 3
    /\ PrepareFailed(1, 2)
    /\ OrderOf(1, "rollback", Len(trace[1])) = <<1, 2, 3>>

\* The "rollback failed" messages given to LogFn so far.
RollbackLogs(r) == {j \in DOMAIN log[r] : log[r][j][1] = "rollback failed: %s"}
RollbackFailures(r) == {j \in DOMAIN trace[r] : trace[r][j].op = "rollback"
                                                 /\ trace[r][j].res = "fail"}

\* C7: no step of the cleanup pass changes the value Do returns; a failed
\* rollback does not keep rollback() from being called on the participants
\* after it; every failed rollback is logged exactly once.
C7_RollbackFailureOnlyLogged ==
    /\ [][\A r \in Runs : pc[r] = "rollback" => ret'[r] = ret[r]]_vars
    /\ [](\A r \in Runs :
            /\ Cardinality(RollbackLogs(r)) = Cardinality(RollbackFailures(r))
            /\ \A i \in 1..N(r) : Has(r, "rollback", i, "fail") =>
                  /\ Cardinality({j \in DOMAIN log[r] :
                        log[r][j] = <<"rollback failed: %s", NewError("RollbackPrepared", i)>>}) = 1
                  /\ Done(r) => \A m \in i..N(r) : Called(r, "rollback", m))

C7_Witness ==
    /\ Done(1)
    /\ N(1) = 3
    /\ Has(1, "rollback", 1, "fail")
    /\ Has(1, "rollback", 2, "ok")
    /\ PrepareFailed(1, 3)

\* C10: three participants, backends that fail no statement, and the context
\* cancelled while prepare of participant 2 is in its work function or about
\* to send PREPARE TRANSACTION.  Then prepare of 2 fails and leaves nothing on
\* its backend, prepare of 3 is never invoked, and when Do returns ROLLBACK
\* PREPARED for participant 1 has been sent and has succeeded, so that 1's
\* transaction is neither prepared nor committed on its backend.
CancelledInPrepare(r, k) ==
    cancelAt[r].idx = k /\ cancelAt[r].pc \in {"do", "exec"}

C10_CancelMidPrepare ==
    \A r \in Runs : (N(r) = 3 /\ CancelledInPrepare(r, 2)) =>
        /\ ~PrepareCalled(r, 3)
        /\ ~PrepareOk(r, 2)
        /\ ~PreparedOnBackend(r, 2) /\ ~CommittedOnBackend(r, 2)
        /\ pc[r] \notin {"do", "exec"} => PrepareFailed(r, 2) /\ tx[r] = "none"
        /\ Done(r) =>
              /\ ret[r] \in PrepareErrors(2)
              /\ RollbackSent(r, 1)
              /\ ~CommittedOnBackend(r, 1)
              /\ ~inject => /\ Has(r, "rollback", 1, "ok")
                            /\ ~PreparedOnBackend(r, 1)
                            /\ StateOf(parts[r][1]) = "RolledBack"

C10_Witness ==
    /\ Done(1)
    /\ N(1) = 3
    /\ ~inject
    /\ CancelledInPrepare(1, 2)
    /\ cancelAt[1].pc = "exec"
    /\ parts[1][2].txid # EmptyTxid
    /\ Has(1, "rollback", 1, "ok")

\* Two calls of rollback() on participant i with no other call on i between.
RollbackPairs(r, i) ==
    {ab \in Positions(r, "rollback") \X Positions(r, "rollback") :
        /\ ab[1] < ab[2]
        /\ trace[r][ab[1]].i = i
        /\ trace[r][ab[2]].i = i
        /\ \A m \in (ab[1] + 1)..(ab[2] - 1) : trace[r][m].i # i}

\* C8 as stated: two calls of rollback() in sequence send at most one
\* ROLLBACK PREPARED for the participant.
C8_AtMostOneBackendRollback ==
    \A r \in Runs : \A i \in 1..N(r) : \A ab \in RollbackPairs(r, i) :
        trace[r][ab[1]].res = "noop" \/ trace[r][ab[2]].res = "noop"

\* C8 amended: of two calls of rollback() in sequence the second sends
\* ROLLBACK PREPARED only if the first sent it and it failed; at most one of
\* the two statements succeeds, and after a successful or skipped first call
\* the second makes no backend call.
C8_SecondOnlyAfterFailure ==
    \A r \in Runs : \A i \in 1..N(r) : \A ab \in RollbackPairs(r, i) :
        /\ trace[r][ab[2]].res # "noop" => trace[r][ab[1]].res = "fail"
        /\ trace[r][ab[1]].res \in {"ok", "noop"} => trace[r][ab[2]].res = "noop"
        /\ ~(trace[r][ab[1]].res = "ok" /\ trace[r][ab[2]].res = "ok")

C8_Witness ==
    \E ab \in RollbackPairs(1, 2) :
        /\ trace[1][ab[1]].res = "ok"
        /\ trace[1][ab[2]].res = "noop"

\* C9: when every one of the concurrent invocations has returned, exactly one
\* returned nil and each other one returned a prepare error; every backend
\* holds exactly one row for the key, the one of the successful invocation;
\* no prepared transaction is left; and no invocation waits for ever.
AllDone == \A r \in Runs : Done(r)
Winners == {r \in Runs : Done(r) /\ ret[r] = Nil}

C9_ExactlyOneWins ==
    /\ Cardinality(Winners) <= 1
    /\ ~AllDone => ENABLED NextConc
    /\ \A r \in Runs : (Done(r) /\ ret[r] # Nil) =>
          /\ \E k \in 1..N(r) : ret[r] \in PrepareErrors(k)
          /\ \A i \in 1..N(r) : ~CommittedOnBackend(r, i) /\ ~PreparedOnBackend(r, i)
    /\ AllDone =>
          /\ Cardinality(Winners) = 1
          /\ \A d \in 1..PairLen :
                /\ dbPrepared[d] = {}
                /\ Cardinality({w \in dbRows[d] : w.key = d}) = 1
                /\ \A w \in dbRows[d] : \E r \in Winners : w.gid = parts[r][d].txid

C9_Witness ==
    /\ AllDone
    /\ ret[2] = Nil
    /\ ret[1] \in PrepareErrors(1)
    /\ ret[MaxRuns] \in PrepareErrors(1)

\* C11: the second invocation's work statement was waiting for the row lock
\* of the first one's open or prepared transaction when its deadline expired.
\* Then its prepare fails with the context's error, Do returns that error,
\* nothing of it is ever committed and, once it has returned, nothing of it
\* is left prepared on either backend; the first
\* invocation is never held up by it, returns nil, and both its updates are
\* committed.
C11_SecondTimesOutOnLock ==
    cancelAt[Second].waiting =>
        /\ \A i \in 1..N(Second) : ~CommittedOnBackend(Second, i)
        /\ Done(Second) =>
              /\ ret[Second] = NewError("context canceled", cancelAt[Second].idx)
              /\ tx[Second] = "none"
              /\ \A i \in 1..N(Second) : ~PreparedOnBackend(Second, i)
        /\ Done(First) =>
              /\ ret[First] = Nil
              /\ \A i \in 1..N(First) : CommittedOnBackend(First, i)
        /\ ~(Done(First) /\ Done(Second)) => ENABLED NextLock

C11_Witness ==
    /\ cancelAt[Second].waiting
    /\ Done(First)
    /\ Done(Second)
    /\ ret[First] = Nil
    /\ ret[Second] # Nil
    /\ \E t \in DOMAIN trace[Second] : trace[Second][t] = Ev("do", 1, "fail")

\* C12: COMMIT PREPARED is sent for no participant before every participant
\* of the list has prepared successfully: Do is in its commit loop, or has
\* called commit at all, only with every prepare returned nil and every
\* transaction prepared (or already committed) on its backend.
C12_CommitOnlyAfterAllPrepared ==
    \A r \in Runs :
        /\ (pc[r] = "commit" \/ \E i \in 1..N(r) : Called(r, "commit", i)) =>
              \A i \in 1..N(r) : PrepareOk(r, i) /\ parts[r][i].prepared
        /\ pc[r] = "commit" =>
              \A i \in 1..N(r) : PreparedOnBackend(r, i) \/ CommittedOnBackend(r, i)
        /\ \A j \in Positions(r, "commit") : \A i \in 1..N(r) :
              \E m \in 1..(j - 1) : trace[r][m] = Ev("PrepareTransaction", i, "ok")

C12_Witness ==
    /\ N(1) = 3
    /\ Has(1, "commit", 1, "ok")
    /\ pc[1] = "commit"
    /\ inject

\* C13 as stated: a participant has a transaction identifier exactly when it is
\* Prepared, Committed or RolledBack; one whose prepare failed has none.
C13_TxidIffPrepared ==
    \A r \in Runs : \A i \in 1..N(r) :
        /\ parts[r][i].txid # EmptyTxid
              <=> StateOf(parts[r][i]) \in {"Prepared", "Committed", "RolledBack"}
        /\ (PrepareFailed(r, i) /\ ~PrepareOk(r, i)) => parts[r][i].txid = EmptyTxid

\* The step is a call of rollback() by invocation r.
RollbackStep(r) == pc[r] = "rollback" /\ Len(trace'[r]) = Len(trace[r]) + 1

\* C14 as stated: rollback() on a participant that is NotPrepared, Committed
\* or RolledBack returns nil with no backend call and no change; only on a
\* Prepared one does it send ROLLBACK PREPARED, making it RolledBack on
\* success.
C14_RollbackOnlyFromPrepared ==
    [][\A r \in Runs : RollbackStep(r) =>
          LET i == idx[r]
              e == trace'[r][Len(trace'[r])]
          IN IF StateOf(parts[r][i]) = "Prepared"
             THEN /\ e.res \in {"ok", "fail"}
                  /\ e.res = "ok" => StateOf(parts'[r][i]) = "RolledBack"
             ELSE /\ e.res = "noop"
                  /\ parts' = parts
                  /\ dbPrepared' = dbPrepared
                  /\ log' = log]_vars

\* The part of the trace that belongs to the invocation in progress (or the
\* last one): what follows the latest call of Do.
RECURSIVE LastCall(_, _)
LastCall(r, j) ==
    IF j = 0 THEN 0
    ELSE IF trace[r][j].op = "Do" THEN j
    ELSE LastCall(r, j - 1)

ThisRun(r) == {j \in DOMAIN trace[r] : j > LastCall(r, Len(trace[r]))}

HasNow(r, op, i, res) == \E j \in ThisRun(r) : trace[r][j] = Ev(op, i, res)

\* C15: a Committed participant stays Committed (also when its Params are
\* passed to Do again); no call of rollback() that follows its successful
\* commit makes a backend call; and after a run in which every commit
\* succeeded the cleanup pass has called rollback() on every participant with
\* no backend call at all.
C15_CommittedIsFinal ==
    /\ [][\A r \in Runs : \A i \in 1..N(r) :
            parts[r][i].committed =>
                /\ parts'[r][i].committed
                /\ parts'[r][i].rollbacked = parts[r][i].rollbacked
                /\ StateOf(parts'[r][i]) = "Committed"]_vars
    /\ [](\A r \in Runs :
            /\ \A a \in Positions(r, "commit") : \A b \in Positions(r, "rollback") :
                  (a < b /\ trace[r][a].res = "ok" /\ trace[r][b].i = trace[r][a].i)
                      => trace[r][b].res = "noop"
            /\ (Done(r) /\ ret[r] = Nil) =>
                  \A i \in 1..N(r) :
                      /\ HasNow(r, "rollback", i, "noop")
                      /\ ~HasNow(r, "rollback", i, "ok")
                      /\ ~HasNow(r, "rollback", i, "fail"))

C15_Witness ==
    /\ Done(1)
    /\ calls[1] = 2
    /\ ret[1] # Nil
    /\ parts[1][1].committed
    /\ HasNow(1, "PrepareTransaction", 1, "ok")
    /\ HasNow(1, "rollback", 1, "noop")

\* C16: when ROLLBACK PREPARED fails for a Prepared participant, rollback()
\* changes nothing of the participant (it stays Prepared, its transaction
\* stays on the backend) and returns the error, which Do logs; the next call
\* of rollback() on it sends ROLLBACK PREPARED again.
C16_FailedRollbackIsRetried ==
    /\ [][\A r \in Runs :
            (RollbackStep(r) /\ trace'[r][Len(trace'[r])].res = "fail") =>
                /\ parts' = parts
                /\ dbPrepared' = dbPrepared
                /\ log'[r] = Append(log[r], <<"rollback failed: %s",
                                              NewError("RollbackPrepared", idx[r])>>)
                /\ StateOf(parts[r][idx[r]]) = "Prepared" =>
                      StateOf(parts'[r][idx[r]]) = "Prepared"]_vars
    /\ [](\A r \in Runs : \A i \in 1..N(r) : \A ab \in RollbackPairs(r, i) :
            trace[r][ab[1]].res = "fail" => trace[r][ab[2]].res \in {"ok", "fail"})

C16_Witness ==
    \E ab \in RollbackPairs(1, 2) :
        /\ trace[1][ab[1]].res = "fail"
        /\ trace[1][ab[2]].res = "ok"
        /\ StateOf(parts[1][2]) = "RolledBack"

\* The errors a failing work function hands to prepare.
WorkErrors(i) == {NewError(k, i) : k \in {"do", "context canceled", "duplicate key"}}

\* C17: when the work function of participant i fails, PREPARE TRANSACTION is
\* never sent for it, its local transaction is rolled back and nothing of it
\* is on the backend, prepare (and so Do) returns the work function's error
\* unchanged, and the participant stays NotPrepared without an identifier.
C17_WorkFailure ==
    \A r \in Runs : \A i \in 1..N(r) : Has(r, "do", i, "fail") =>
        /\ ~Called(r, "PrepareTransaction", i)
        /\ tx[r] = "none"
        /\ \A t \in dbPrepared[parts[r][i].db] : t.key # parts[r][i].key
        /\ \A w \in dbRows[parts[r][i].db] : w.key # parts[r][i].key
        /\ ret[r] \in WorkErrors(i)
        /\ parts[r][i] = NewParticipant(parts[r][i].db, parts[r][i].stmt, parts[r][i].key)
        /\ StateOf(parts[r][i]) = "NotPrepared"
        /\ Done(r) => Has(r, "rollback", i, "noop")

C17_Witness ==
    /\ Done(1)
    /\ N(1) = 3
    /\ Has(1, "do", 2, "fail")
    /\ ret[1] = NewError("do", 2)
    /\ Has(1, "rollback", 1, "ok")

\* The number of events of operation op on participant i among positions S
\* of run r's trace.
Count(r, S, op, i) == Cardinality({j \in S : trace[r][j].op = op /\ trace[r][j].i = i})

\* C18: there are no retries: over a participant's lifetime its work function
\* is invoked at most once, and only from prepare (after BeginTx on the
\* participant succeeded); within one invocation of Do every participant gets
\* at most one prepare attempt and at most one commit attempt.
C18_NoRetries ==
    \A r \in Runs : \A i \in 1..N(r) :
        /\ Count(r, DOMAIN trace[r], "do", i) <= 1
        /\ \A j \in ThisRun(r) :
              (trace[r][j].op = "do" /\ trace[r][j].i = i) =>
                  \E b \in ThisRun(r) : b < j /\ trace[r][b] = Ev("BeginTx", i, "ok")
        /\ \A op \in {"BeginTx", "PrepareTransaction", "commit"} :
              Count(r, ThisRun(r), op, i) <= 1

\* C18, per invocation: within one invocation of Do every participant gets at
\* most one BeginTx, one call of its work function (only from prepare, after
\* that invocation's BeginTx on it succeeded), one PREPARE TRANSACTION and one
\* COMMIT PREPARED, and after a failed prepare or commit nothing but the
\* cleanup rollbacks follows; over several invocations on the same Params the
\* work function is called at most once per invocation.
C18_NoRetryWithinRun ==
    \A r \in Runs :
        /\ \A i \in 1..N(r) :
              /\ \A op \in {"BeginTx", "do", "PrepareTransaction", "commit"} :
                    Count(r, ThisRun(r), op, i) <= 1
              /\ Count(r, DOMAIN trace[r], "do", i) <= calls[r]
              /\ \A j \in ThisRun(r) :
                    (trace[r][j].op = "do" /\ trace[r][j].i = i) =>
                        \E b \in ThisRun(r) : b < j /\ trace[r][b] = Ev("BeginTx", i, "ok")
        /\ \A j \in ThisRun(r) :
              (trace[r][j].res = "fail" /\ trace[r][j].op # "rollback") =>
                  \A k \in ThisRun(r) : k > j => trace[r][k].op = "rollback"

C18_Witness ==
    /\ Done(1) /\ calls[1] = 2
    /\ Count(1, DOMAIN trace[1], "do", 1) = 2
    /\ Count(1, ThisRun(1), "do", 1) = 1
    /\ HasNow(1, "commit", 1, "fail")

\* The context of run r was cancelled once every participant had prepared.
CancelledAfterPrepare(r) == cancelled[r] /\ cancelAt[r].pc = "commit"

\* C19: a context cancelled after every participant has prepared stops
\* nothing: the commits are attempted in list order, each one after the
\* success of the one before, up to the last participant or the first commit
\* that fails, and with backends that fail nothing they all succeed and Do
\* returns nil.  Whenever the context is cancelled, no commit fails on a
\* backend that fails nothing, rollback() is still called on every participant,
\* every participant prepared and not committed is rolled back on its backend,
\* and the only ROLLBACK PREPARED that fails is the one sent for a participant
\* whose PREPARE TRANSACTION had failed.
C19_ContextGovernsPhaseOneOnly ==
    \A r \in Runs :
        /\ CancelledAfterPrepare(r) =>
              /\ \A i \in 1..N(r) : PrepareOk(r, i)
              /\ \A i \in 2..N(r) :
                    /\ Called(r, "commit", i) => Has(r, "commit", i - 1, "ok")
                    /\ (Done(r) /\ Has(r, "commit", i - 1, "ok")) =>
                          Called(r, "commit", i)
              /\ Done(r) => Called(r, "commit", 1)
              /\ (Done(r) /\ ~inject) =>
                    /\ ret[r] = Nil
                    /\ \A i \in 1..N(r) : CommittedOnBackend(r, i)
        /\ cancelled[r] =>
              /\ Done(r) => \A i \in 1..N(r) : Called(r, "rollback", i)
              /\ ~inject => \A i \in 1..N(r) :
                    /\ ~Has(r, "commit", i, "fail")
                    /\ Has(r, "rollback", i, "fail") =>
                          Has(r, "PrepareTransaction", i, "fail")
                    /\ (Done(r) /\ PrepareOk(r, i) /\ ~parts[r][i].committed) =>
                          /\ Has(r, "rollback", i, "ok")
                          /\ ~PreparedOnBackend(r, i)

C19_Witness ==
    /\ Done(1) /\ N(1) = 3 /\ ~inject
    /\ cancelled[1] /\ cancelAt[1].pc = "commit" /\ cancelAt[1].idx = 2
    /\ \A i \in 1..3 : CommittedOnBackend(1, i)

\* A ROLLBACK PREPARED failed during the cleanup of the current invocation.
RollbackFailedNow(r) == \E i \in 1..N(r) : HasNow(r, "rollback", i, "fail")

\* C20: when an invocation of Do has returned and no ROLLBACK PREPARED failed
\* during its cleanup, every transaction it prepared on a backend is committed
\* there or was rolled back there, so that no backend holds it prepared and no
\* participant is in state Prepared; after a failed commit of participant k,
\* participant k and the participants after it are rolled back and those
\* before it are committed.
C20_NothingLeftPrepared ==
    \A r \in Runs : (Done(r) /\ ~RollbackFailedNow(r)) =>
        /\ \A i \in 1..N(r) :
              /\ StateOf(parts[r][i]) # "Prepared"
              /\ HasNow(r, "PrepareTransaction", i, "ok") =>
                    /\ ~PreparedOnBackend(r, i)
                    /\ \/ CommittedOnBackend(r, i) /\ HasNow(r, "commit", i, "ok")
                       \/ HasNow(r, "rollback", i, "ok")
        /\ \A k \in 1..N(r) : HasNow(r, "commit", k, "fail") =>
              /\ \A i \in k..N(r) :
                    HasNow(r, "rollback", i, "ok") /\ ~CommittedOnBackend(r, i)
              /\ \A i \in 1..(k - 1) : CommittedOnBackend(r, i)

\* The positions of run r's trace holding a call of a prepare step / of commit
\* on participant i.
PreparePositions(r, i) ==
    {j \in DOMAIN trace[r] : trace[r][j].op \in PrepareOps /\ trace[r][j].i = i}
CommitPositions(r, i) ==
    {j \in DOMAIN trace[r] : trace[r][j].op = "commit" /\ trace[r][j].i = i}

\* C21: within one invocation of Do, at every moment the participants whose
\* prepare was attempted are a prefix of the list and so are the Committed
\* participants; every step of the prepare (resp. the commit) of participant
\* i + 1 comes after the success of the prepare (resp. the commit) of
\* participant i; and every call of rollback() comes after the last prepare
\* or commit step of the invocation.
C21_StrictLinearOrder ==
    \A r \in Runs :
        /\ \A i \in 2..N(r) :
              /\ PrepareCalled(r, i) => PrepareCalled(r, i - 1)
              /\ parts[r][i].committed => parts[r][i - 1].committed
              /\ \A j \in PreparePositions(r, i) :
                    \E m \in 1..(j - 1) :
                        trace[r][m] = Ev("PrepareTransaction", i - 1, "ok")
              /\ \A j \in CommitPositions(r, i) :
                    \E m \in 1..(j - 1) : trace[r][m] = Ev("commit", i - 1, "ok")
        /\ \A a \in Positions(r, "rollback") : \A b \in DOMAIN trace[r] :
              trace[r][b].op # "rollback" => b < a
        /\ pc[r] \in {"prepare", "do", "exec"} =>
              /\ \A i \in 1..(idx[r] - 1) : PrepareOk(r, i)
              /\ \A i \in (idx[r] + 1)..N(r) : ~PrepareCalled(r, i)
        /\ pc[r] = "commit" =>
              /\ \A i \in 1..(idx[r] - 1) : parts[r][i].committed
              /\ \A i \in idx[r]..N(r) : ~Called(r, "commit", i)

C21_Witness ==
    /\ Done(1) /\ N(1) = 3
    /\ OrderOf(1, "PrepareTransaction", Len(trace[1])) = <<1, 2, 3>>
    /\ OrderOf(1, "commit", Len(trace[1])) = <<1, 2>>
    /\ Has(1, "commit", 2, "fail")
    /\ OrderOf(1, "rollback", Len(trace[1])) = <<1, 2, 3>>

\* C22: an invocation of Do on Params that an earlier Do already used behaves
\* like one on fresh participants: rollback() skips its backend call only for
\* a participant that this invocation committed or did not prepare,
\* and once the invocation has returned every transaction it prepared was
\* committed by it or had a ROLLBACK PREPARED sent for it.
C22_NoStateAcrossInvocations ==
    \A r \in Runs : calls[r] > 1 =>
        \A i \in 1..N(r) :
            /\ HasNow(r, "rollback", i, "noop") =>
                  \/ HasNow(r, "commit", i, "ok")
                  \/ ~HasNow(r, "PrepareTransaction", i, "ok")
            /\ (Done(r) /\ HasNow(r, "PrepareTransaction", i, "ok")) =>
                  \/ HasNow(r, "commit", i, "ok")
                  \/ HasNow(r, "rollback", i, "ok")
                  \/ HasNow(r, "rollback", i, "fail")

====
